---- MODULE Spec2Model ----
(***************************************************************************)
(* Model of the AgentFlow session orchestrator                             *)
(* (src/python-agents/orchestrator/graph.py, with its callers in           *)
(* api/server.py and its collaborators in utils/ and agents/).             *)
(*                                                                         *)
(* Each task is one call of AgentOrchestrator.run_analysis, scheduled by   *)
(* asyncio: a task runs without interruption from one await to the next,   *)
(* so every action below is "the awaited call completes, and the code runs *)
(* on up to the next await".  The parse loop is stepped once per file.     *)
(*                                                                         *)
(* Collaborators (durable store, shared cache, parser, stage, workflow     *)
(* driver) are reached through awaited calls; each call either returns or  *)
(* raises.  A cache call may also raise after its effect took place: the   *)
(* methods of utils/redis_client.py are synchronous, so awaiting their     *)
(* boolean result raises once the storage has been changed.                *)
(*                                                                         *)
(* The workflow driver is the compiled LangGraph StateGraph built in       *)
(* _build_workflow: when a node finishes, every outgoing edge fires, the   *)
(* unconditional ones and the branch chosen by a conditional edge alike,   *)
(* and the targets run in the next superstep; a superstep ends when all    *)
(* its nodes have returned.  Every node mutates and returns the one state  *)
(* object of the run, and ainvoke returns that state.                      *)
(***************************************************************************)
EXTENDS Integers, Sequences, FiniteSets, TLC

(* ---------------------------------------------------------------- bounds *)
MaxFiles == 2

(* run_analysis calls that may overlap *)
Tasks == {"t1", "t2"}
SessionIds == {"s1", "s2"}
Paths == {"a.php", "b.js", "c.txt"}

(* file lists with pairwise distinct paths, at most MaxFiles long *)
FileLists ==
  {fs \in UNION {[1..n -> Paths] : n \in 0..MaxFiles} :
      \A i, j \in DOMAIN fs : i # j => fs[i] # fs[j]}

(* agents_config values passed by callers: none, documenter on/off, or a  *)
(* config that names another agent only                                    *)
Configs ==
  { [k \in {} |-> TRUE],
    [k \in {"documenter"} |-> TRUE],
    [k \in {"documenter"} |-> FALSE],
    [k \in {"tester"} |-> TRUE] }

(* the inputs of the runs that overlap: no file or one file, the default  *)
(* config or the documenter switched off                                   *)
FewFileLists == {fs \in FileLists : Len(fs) <= 1 /\ \A i \in DOMAIN fs : fs[i] = "a.php"}

FewConfigs == {cfg \in Configs : "tester" \notin DOMAIN cfg /\ \A k \in DOMAIN cfg : ~cfg[k]}

(* AgentConfig(model="llama-3-70b", ...) of DocumenterAgent.__init__, also  *)
(* the default of run_analysis and of the request                          *)
DefaultModel == "llama-3-70b"

(* the model option each caller passes: the two callers whose runs may     *)
(* overlap ask for different models                                        *)
RequestedModel(t) == IF t = "t1" THEN DefaultModel ELSE "gpt-4"

(* ------------------------------------------------------------- helpers  *)
(* an empty dict *)
EmptyMap == [k \in {} |-> TRUE]

Remove(f, k) == [x \in DOMAIN f \ {k} |-> f[x]]

Put(f, k, v) == [x \in DOMAIN f \cup {k} |-> IF x = k THEN v ELSE f[x]]

(* dict.get(key, default) *)
Get(d, k, default) == IF k \in DOMAIN d THEN d[k] ELSE default

(* str.endswith on the modelled paths *)
EndsWith(path, ext) ==
  CASE path = "a.php" -> ext = ".php"
    [] path = "b.js"  -> ext = ".js"
    [] OTHER          -> FALSE

(* the keys self.agents is built with *)
AgentNames == {"documenter"}

ProgressKeys ==
  {"parsing", "routing", "documenter", "collection", "storage", "error_handling"}

(* ------------------------------------------------------- AnalysisState  *)
NoProgress == [k \in ProgressKeys |-> "absent"]

(* AnalysisState(session_id, project_id, files, metadata) with the field   *)
(* defaults of the dataclass                                               *)
AnalysisState(sid, fs, cfg, model) ==
  [ session_id       |-> sid,
    files            |-> fs,
    agents_config    |-> cfg,
    model            |-> model,
    parsed_elements  |-> {},
    agent_outputs    |-> EmptyMap,
    current_agent    |-> "None",
    errors           |-> <<>>,
    progress         |-> NoProgress,
    files_processed  |-> 0,
    agents_to_run    |-> {} ]

(* AnalysisState.to_dict: the value handed to the cache, one key per      *)
(* field of the dataclass; files_processed and agents_to_run are entries   *)
(* of the progress dict in the source                                      *)
to_dict(s) ==
  [ session_id      |-> s.session_id,
    files           |-> s.files,
    parsed_elements |-> s.parsed_elements,
    agent_outputs   |-> s.agent_outputs,
    current_agent   |-> s.current_agent,
    errors          |-> s.errors,
    progress        |-> s.progress,
    files_processed |-> s.files_processed,
    agents_to_run   |-> s.agents_to_run,
    agents_config   |-> s.agents_config,
    model           |-> s.model ]

(* the dataclass constructor applied to the keys of such a dict: the      *)
(* state object rebuilt from it                                            *)
from_dict(d) ==
  [ session_id       |-> d.session_id,
    files            |-> d.files,
    agents_config    |-> d.agents_config,
    model            |-> d.model,
    parsed_elements  |-> d.parsed_elements,
    agent_outputs    |-> d.agent_outputs,
    current_agent    |-> d.current_agent,
    errors           |-> d.errors,
    progress         |-> d.progress,
    files_processed  |-> d.files_processed,
    agents_to_run    |-> d.agents_to_run ]

(* ------------------------------------------------------------ variables *)
VARIABLES
  pc,               \* pc[t]: where task t stands in run_analysis / the workflow
  st,               \* st[t]: the AnalysisState object task t created
  loc,              \* loc[t]: locals of the running node (loop index, parsed_elements)
  branch,           \* branch[t]: the handle_errors node of task t's workflow
  exc,              \* exc[t]: str(e) of the exception run_analysis caught
  active_sessions,  \* AgentOrchestrator.active_sessions: id -> state object (its task)
  redis,            \* RedisClient storage: id -> value stored under session:<id>
  db,               \* durable store, analysis sessions: id -> row
  db_outputs,       \* durable store, agent outputs, in insertion order
  q,                \* the status client: one get_session_status call at a time
  response,         \* response[t]: what the caller that scheduled task t was returned
  documenter_config, \* config.model of the one DocumenterAgent all sessions share
  total_runs,       \* total_runs of that agent
  last_run,         \* last_run of that agent: 0 for None, else the time it was set
  services,         \* server.py globals: which of db_manager, redis_client, orchestrator are set
  health            \* the health_check call: its position, services_status, its last response

vars == <<pc, st, loc, branch, exc, active_sessions, redis, db, db_outputs, q, response,
         documenter_config, total_runs, last_run, services, health>>

NoLoc == [i |-> 0, parsed |-> {}]

NoView == [source |-> "none", status |-> "none", current_agent |-> "None",
           progress |-> NoProgress, errors |-> <<>>]

(* what the status client keeps of the view it was given *)
Seen(view) == [source |-> view.source, status |-> view.status]

IdleQuery == [pc |-> "idle", sid |-> "s1", tiers |-> {}, view |-> Seen(NoView)]

(* no response yet *)
NoResponse == [session_id |-> "none", status |-> "none"]

(* AnalysisResponse(session_id, status="started", ...) *)
AnalysisResponse(sid) == [session_id |-> sid, status |-> "started"]

(* HTTPException(status_code=500, ...) *)
HTTPException == [session_id |-> "none", status |-> "error"]

(* the server's globals once startup_event has run to its end *)
AllServices == [db_manager |-> TRUE, redis_client |-> TRUE, orchestrator |-> TRUE]

(* no health response yet *)
NoHealth == [status |-> "none", services |-> EmptyMap]

IdleHealth == [pc |-> "idle", services_status |-> EmptyMap, response |-> NoHealth]

Init ==
  /\ pc = [t \in Tasks |-> "idle"]
  /\ st = [t \in Tasks |-> AnalysisState("s1", <<>>, EmptyMap, DefaultModel)]
  /\ loc = [t \in Tasks |-> NoLoc]
  /\ branch = [t \in Tasks |-> "none"]
  /\ exc = [t \in Tasks |-> ""]
  /\ active_sessions = EmptyMap
  /\ redis = EmptyMap
  /\ db = EmptyMap
  /\ db_outputs = <<>>
  /\ q = IdleQuery
  /\ response = [t \in Tasks |-> NoResponse]
  /\ documenter_config = DefaultModel
  /\ total_runs = 0
  /\ last_run = 0
  /\ services = AllServices
  /\ health = IdleHealth

(* ------------------------------------------------------- durable store  *)
(* createSession(subjectId, id, stageConfig): a new row with status        *)
(* created; repeating it for an existing id changes nothing                *)
create_analysis_session(d, sid) ==
  IF sid \in DOMAIN d THEN d
  ELSE Put(d, sid, [status |-> "created", error_message |-> <<>>,
                    log |-> <<"created">>])

(* updateStatus(id, status, errorMessage?): overwrites the row's status;   *)
(* log is the history of the statuses written to the row                   *)
update_session_status(d, sid, status, msg) ==
  IF sid \in DOMAIN d
  THEN [d EXCEPT ![sid] = [status |-> status, error_message |-> msg,
                           log |-> Append(@.log, status)]]
  ELSE d

(* storeStageOutput(subjectId, stageName, outputKind, payload) *)
store_agent_output(outs, sid, agent_type, output_type, content) ==
  Append(outs, [session_id |-> sid, agent_type |-> agent_type,
                output_type |-> output_type, content |-> content])

(* --------------------------------------------------------- shared cache *)
(* json.dumps accepts the dict: no AgentResult object is in it, and no     *)
(* aggregated entry, whose results refer back to agent_outputs (422-428)   *)
Serializable(value) == DOMAIN value.agent_outputs = {}

(* the JSON text of a dict, and the dict parsed from a JSON text *)
json_dumps(value) == [text |-> value]

json_loads(text) == text.text

(* RedisClient.set: the JSON text of the value is stored; when json.dumps  *)
(* raises, the storage is left as it was and False is returned             *)
redis_set(r, key, value) ==
  IF Serializable(value) THEN Put(r, key, json_dumps(value)) ELSE r

(* RedisClient.get of a key that is stored *)
redis_get(r, key) == json_loads(r[key])

(* a delete that empties the cache *)
redis_delete_flushes(r, key) == EmptyMap

(* RedisClient.delete *)
redis_delete(r, key) == IF key \in DOMAIN r THEN Remove(r, key) ELSE r

(* outcomes of an awaited cache call that changes the storage *)
CacheOutcomes == {"ok", "fault_before", "fault_after"}

(* outcomes of an awaited store call *)
CallOutcomes == {"ok", "fault"}

(* --------------------------------------------------------- run_analysis *)
(* the handler awaiting run_analysis before it builds its response *)
StartRun_awaits(t, sid, fs, cfg) ==
  /\ pc[t] = "idle"
  /\ db' = create_analysis_session(db, sid)
  /\ st' = [st EXCEPT ![t] = AnalysisState(sid, fs, cfg, RequestedModel(t))]
  /\ pc' = [pc EXCEPT ![t] = "update_in_progress"]
  /\ UNCHANGED <<loc, branch, exc, active_sessions, redis, db_outputs, q, response, documenter_config, total_runs, last_run, services, health>>

(* analyze_project 172-199 (upload_files 270-295): the caller creates the  *)
(* session row and hands run_analysis, with the id, the files and the      *)
(* agents_config it chose, to the background tasks (asyncio.create_task);  *)
(* it returns its response without an await in between.  The task then     *)
(* stands at its first await, the in_progress status update.               *)
StartRun(t, sid, fs, cfg) ==
  /\ pc[t] = "idle"
  /\ db' = create_analysis_session(db, sid)
  /\ st' = [st EXCEPT ![t] = AnalysisState(sid, fs, cfg, RequestedModel(t))]
  /\ pc' = [pc EXCEPT ![t] = "update_in_progress"]
  /\ response' = [response EXCEPT ![t] = AnalysisResponse(sid)]
  /\ UNCHANGED <<loc, branch, exc, active_sessions, redis, db_outputs, q, documenter_config, total_runs, last_run, services, health>>

(* analyze_project 201-203: create_analysis_session raises, nothing is     *)
(* scheduled and the caller gets an error response                         *)
StartFails(t) ==
  /\ pc[t] = "idle"
  /\ response' = [response EXCEPT ![t] = HTTPException]
  /\ UNCHANGED <<pc, st, loc, branch, exc, active_sessions, redis, db, db_outputs, q,
                 documenter_config, total_runs, last_run, services, health>>

(* self.active_sessions[session_id] = state *)
Register(a, sid, t) == Put(a, sid, t)

(* line 161 returns; the state is built and registered in memory; the     *)
(* task stands at the cache write                                          *)
UpdateInProgress(t, outcome) ==
  /\ pc[t] = "update_in_progress"
  /\ IF outcome = "ok"
     THEN /\ db' = update_session_status(db, st[t].session_id, "in_progress", <<>>)
          /\ active_sessions' = Register(active_sessions, st[t].session_id, t)
          /\ pc' = [pc EXCEPT ![t] = "redis_set"]
          /\ exc' = exc
     ELSE /\ pc' = [pc EXCEPT ![t] = "except"]
          /\ exc' = [exc EXCEPT ![t] = "store unavailable"]
          /\ UNCHANGED <<db, active_sessions>>
  /\ UNCHANGED <<st, loc, branch, redis, db_outputs, q, response, documenter_config, total_runs, last_run, services, health>>

(* line 178: redis_client.set("session:<id>", state.to_dict()) *)
CacheState(t, outcome) ==
  /\ pc[t] = "redis_set"
  /\ redis' = IF outcome \in {"ok", "fault_after"}
              THEN redis_set(redis, st[t].session_id, to_dict(st[t]))
              ELSE redis
  /\ IF outcome = "ok"
     THEN /\ pc' = [pc EXCEPT ![t] = "ainvoke"]
          /\ exc' = exc
     ELSE /\ pc' = [pc EXCEPT ![t] = "except"]
          /\ exc' = [exc EXCEPT ![t] = "cache unavailable"]
  /\ UNCHANGED <<st, loc, branch, active_sessions, db, db_outputs, q, response, documenter_config, total_runs, last_run, services, health>>

(* line 182: workflow.ainvoke raises without having run a node *)
AinvokeFault(t) ==
  /\ pc[t] = "ainvoke"
  /\ pc' = [pc EXCEPT ![t] = "except"]
  /\ exc' = [exc EXCEPT ![t] = "workflow failed"]
  /\ UNCHANGED <<st, loc, branch, active_sessions, redis, db, db_outputs, q, response, documenter_config, total_runs, last_run, services, health>>

(* ------------------------------------------------------------ parse_code *)
(* lines 217-220: the node starts *)
parse_code_begin(t) ==
  /\ pc[t] = "ainvoke"
  /\ st' = [st EXCEPT ![t].current_agent = "parser",
                      ![t].progress["parsing"] = "started",
                      ![t].files_processed = 0]
  /\ loc' = [loc EXCEPT ![t] = [i |-> 1, parsed |-> {}]]
  /\ pc' = [pc EXCEPT ![t] = "parse_code"]
  /\ UNCHANGED <<branch, exc, active_sessions, redis, db, db_outputs, q, response, documenter_config, total_runs, last_run, services, health>>

(* the file is handed to the parser: .php, .js and .vue files only *)
Parseable(path) ==
  EndsWith(path, ".php") \/ EndsWith(path, ".js") \/ EndsWith(path, ".vue")

(* the loop over state.files left at the first file that fails *)
parse_code_file_aborts(t, parsed) ==
  /\ pc[t] = "parse_code"
  /\ loc[t].i <= Len(st[t].files)
  /\ LET path == st[t].files[loc[t].i] IN
       IF Parseable(path) /\ ~parsed
       THEN /\ st' = [st EXCEPT ![t].errors = Append(@, "Parse error in " \o path)]
            /\ loc' = [loc EXCEPT ![t].i = Len(st[t].files) + 1]
       ELSE /\ st' = [st EXCEPT ![t].files_processed = loc[t].i]
            /\ loc' = [loc EXCEPT ![t].i = @ + 1,
                                  ![t].parsed = IF Parseable(path)
                                                THEN @ \cup {path} ELSE @]
  /\ UNCHANGED <<pc, branch, exc, active_sessions, redis, db, db_outputs, q, response, documenter_config, total_runs, last_run, services, health>>

(* lines 222-241: one iteration of the loop over state.files; parsed says  *)
(* whether the parser returned (TRUE) or raised (FALSE)                    *)
parse_code_file(t, parsed) ==
  /\ pc[t] = "parse_code"
  /\ loc[t].i <= Len(st[t].files)
  /\ LET path == st[t].files[loc[t].i] IN
       IF Parseable(path) /\ ~parsed
       THEN /\ st' = [st EXCEPT ![t].errors = Append(@, "Parse error in " \o path)]
            /\ loc' = [loc EXCEPT ![t].i = @ + 1]
       ELSE /\ st' = [st EXCEPT ![t].files_processed = loc[t].i]
            /\ loc' = [loc EXCEPT ![t].i = @ + 1,
                                  ![t].parsed = IF Parseable(path)
                                                THEN @ \cup {path} ELSE @]
  /\ UNCHANGED <<pc, branch, exc, active_sessions, redis, db, db_outputs, q, response, documenter_config, total_runs, last_run, services, health>>

(* _should_continue *)
should_continue(s) == IF s.errors # <<>> THEN "error" ELSE "continue"

(* the conditional edge read as replacing the edge of line 109: on errors  *)
(* only handle_errors is started                                           *)
AfterParse_exclusive(s) ==
  IF should_continue(s) = "error" THEN {"handle_errors"} ELSE {"route_to_agents"}

(* the nodes started when parse_code returns: the edge added at line 109   *)
(* and the branch the conditional edge of lines 122-129 selects            *)
AfterParse(s) ==
  {"route_to_agents"} \cup
  (IF should_continue(s) = "error" THEN {"handle_errors"} ELSE {"route_to_agents"})

(* parse_code returning with the workflow ended when a file failed *)
parse_code_end_blocks(t) ==
  /\ pc[t] = "parse_code"
  /\ loc[t].i > Len(st[t].files)
  /\ st' = [st EXCEPT ![t].parsed_elements = loc[t].parsed,
                      ![t].progress["parsing"] = "completed"]
  /\ pc' = [pc EXCEPT ![t] =
              IF st[t].errors = <<>> THEN "route_to_agents" ELSE "end"]
  /\ branch' = [branch EXCEPT ![t] =
              IF "handle_errors" \in AfterParse(st'[t]) THEN "todo" ELSE "none"]
  /\ loc' = [loc EXCEPT ![t] = NoLoc]
  /\ UNCHANGED <<exc, active_sessions, redis, db, db_outputs, q, response, documenter_config, total_runs, last_run, services, health>>

(* lines 243-247: the loop is over, the node returns and the driver        *)
(* schedules the next superstep                                            *)
parse_code_end(t) ==
  /\ pc[t] = "parse_code"
  /\ loc[t].i > Len(st[t].files)
  /\ st' = [st EXCEPT ![t].parsed_elements = loc[t].parsed,
                      ![t].progress["parsing"] = "completed"]
  /\ pc' = [pc EXCEPT ![t] =
              IF "route_to_agents" \in AfterParse(st'[t])
              THEN "route_to_agents" ELSE "end"]
  /\ branch' = [branch EXCEPT ![t] =
              IF "handle_errors" \in AfterParse(st'[t]) THEN "todo" ELSE "none"]
  /\ loc' = [loc EXCEPT ![t] = NoLoc]
  /\ UNCHANGED <<exc, active_sessions, redis, db, db_outputs, q, response, documenter_config, total_runs, last_run, services, health>>

(* ------------------------------------------------------- route_to_agents *)
(* route_to_agents writing the state to the cache again as it returns *)
route_to_agents_caches(t) ==
  /\ pc[t] = "route_to_agents"
  /\ LET agents_to_run ==
           IF DOMAIN st[t].agents_config = {}
           THEN AgentNames
           ELSE DOMAIN st[t].agents_config
     IN st' = [st EXCEPT ![t].current_agent = "router",
                         ![t].progress["routing"] = "completed",
                         ![t].agents_to_run = agents_to_run]
  /\ redis' = redis_set(redis, st[t].session_id, to_dict(st'[t]))
  /\ pc' = [pc EXCEPT ![t] = "run_documenter"]
  /\ UNCHANGED <<loc, branch, exc, active_sessions, db, db_outputs, q, response, documenter_config, total_runs, last_run, services, health>>

(* lines 259-273; the node awaits nothing *)
route_to_agents(t) ==
  /\ pc[t] = "route_to_agents"
  /\ LET agents_to_run ==
           IF DOMAIN st[t].agents_config = {}
           THEN AgentNames
           ELSE DOMAIN st[t].agents_config
     IN st' = [st EXCEPT ![t].current_agent = "router",
                         ![t].progress["routing"] = "completed",
                         ![t].agents_to_run = agents_to_run]
  /\ pc' = [pc EXCEPT ![t] = "run_documenter"]
  /\ UNCHANGED <<loc, branch, exc, active_sessions, redis, db, db_outputs, q, response, documenter_config, total_runs, last_run, services, health>>

(* --------------------------------------------------------- handle_errors *)
(* lines 473-483: the node starts and, when there are errors, calls the    *)
(* store; it runs in the superstep of route_to_agents                      *)
handle_errors_begin(t) ==
  /\ branch[t] = "todo"
  /\ IF st[t].errors # <<>>
     THEN /\ st' = [st EXCEPT ![t].current_agent = "error_handler",
                              ![t].progress["error_handling"] = "started"]
          /\ branch' = [branch EXCEPT ![t] = "update_failed"]
     ELSE /\ st' = [st EXCEPT ![t].current_agent = "error_handler",
                              ![t].progress["error_handling"] = "completed"]
          /\ branch' = [branch EXCEPT ![t] = "done"]
  /\ UNCHANGED <<pc, loc, exc, active_sessions, redis, db, db_outputs, q, response, documenter_config, total_runs, last_run, services, health>>

(* str.join of the error list: the parts, in order *)
Join(errors) == errors

(* handle_errors emptying the error list once it is reported to the store *)
handle_errors_end_clears(t, outcome) ==
  /\ branch[t] = "update_failed"
  /\ IF outcome = "ok"
     THEN /\ db' = update_session_status(db, st[t].session_id, "failed",
                                         Join(st[t].errors))
          /\ st' = [st EXCEPT ![t].progress["error_handling"] = "completed",
                              ![t].errors = <<>>]
     ELSE UNCHANGED <<db, st>>
  /\ branch' = [branch EXCEPT ![t] = "done"]
  /\ UNCHANGED <<pc, loc, exc, active_sessions, redis, db_outputs, q, response, documenter_config, total_runs, last_run, services, health>>

(* lines 479-488 when the store call returns, 490-492 when it raises *)
handle_errors_end(t, outcome) ==
  /\ branch[t] = "update_failed"
  /\ IF outcome = "ok"
     THEN /\ db' = update_session_status(db, st[t].session_id, "failed",
                                         Join(st[t].errors))
          /\ st' = [st EXCEPT ![t].progress["error_handling"] = "completed"]
     ELSE UNCHANGED <<db, st>>
  /\ branch' = [branch EXCEPT ![t] = "done"]
  /\ UNCHANGED <<pc, loc, exc, active_sessions, redis, db_outputs, q, response, documenter_config, total_runs, last_run, services, health>>

(* --------------------------------------------------------- run_documenter *)
(* the superstep of route_to_agents is over when handle_errors, if it was  *)
(* started, has returned                                                   *)
SuperstepOver(t) == branch[t] \in {"none", "done"}

(* line 283: agents_config.get("documenter", True) *)
DocumenterEnabled(s) == Get(s.agents_config, "documenter", TRUE)

(* documenter.py 100-101: the model passed to analyze replaces the model   *)
(* of the agent's config                                                   *)
set_config(config, model) == model

(* run_documenter with a first, empty result stored under the stage's name *)
(* before analyze is awaited                                               *)
run_documenter_begin_early(t) ==
  /\ pc[t] = "run_documenter"
  /\ SuperstepOver(t)
  /\ IF ~DocumenterEnabled(st[t])
     THEN /\ pc' = [pc EXCEPT ![t] = "collect_results"]
          /\ UNCHANGED <<st, documenter_config>>
     ELSE /\ pc' = [pc EXCEPT ![t] = "documenter_analyze"]
          /\ st' = [st EXCEPT ![t].current_agent = "documenter",
                              ![t].progress["documenter"] = "started",
                              ![t].agent_outputs =
                                  Put(@, "documenter", [success |-> FALSE, model |-> "none"])]
          /\ documenter_config' = set_config(documenter_config, st[t].model)
  /\ UNCHANGED <<loc, branch, exc, active_sessions, redis, db, db_outputs, q, response,
                 total_runs, last_run, services, health>>

(* lines 283-299: skipped, or started; analyze is entered, sets the config *)
(* of the agent and runs up to its first await                             *)
run_documenter_begin(t) ==
  /\ pc[t] = "run_documenter"
  /\ SuperstepOver(t)
  /\ IF ~DocumenterEnabled(st[t])
     THEN /\ pc' = [pc EXCEPT ![t] = "collect_results"]
          /\ UNCHANGED <<st, documenter_config>>
     ELSE /\ pc' = [pc EXCEPT ![t] = "documenter_analyze"]
          /\ st' = [st EXCEPT ![t].current_agent = "documenter",
                              ![t].progress["documenter"] = "started"]
          /\ documenter_config' = set_config(documenter_config, st[t].model)
  /\ UNCHANGED <<loc, branch, exc, active_sessions, redis, db, db_outputs, q, response,
                 total_runs, last_run, services, health>>

(* what documenter.analyze does: returns a result with success=True,       *)
(* returns one with success=False, or raises                               *)
StageOutcomes == {"success", "unsuccessful", "raise"}

(* analyze awaits the LLM, once per element, when there is an element to   *)
(* document; with nothing parsed it runs from entry to return in one step  *)
Suspends(s) == s.parsed_elements # {}

(* documenter.py 122-157: the AgentResult; a successful one reports the    *)
(* model of the agent's config as it is when the report is built           *)
AgentResult(t, outcome) ==
  [success |-> outcome = "success",
   model   |-> IF outcome # "success" THEN "none"
               ELSE IF Suspends(st[t]) THEN documenter_config
               ELSE set_config(documenter_config, st[t].model)]

(* the language-model calls of one invocation of analyze, one per element  *)
(* to document (documenter.py 113-120, 255-285), an element being a file   *)
(* that was parsed.  base_agent.py 163-173: a call that returns stamps      *)
(* last_run and counts in total_runs; a call that fails (194-209) leaves    *)
(* both as they are; ok is the number of calls that returned                *)
call_llm(t) ==
  \E ok \in 0..Cardinality(st[t].parsed_elements) :
    /\ total_runs' = total_runs + ok
    /\ last_run' = IF ok > 0 THEN total_runs + ok ELSE last_run

(* get_agents_status: the counters of every agent, by name *)
get_agents_status ==
  [name \in AgentNames |-> [last_run |-> last_run, total_runs |-> total_runs]]

(* run_documenter with a fault of the stage leaving the node and the       *)
(* workflow as the exception of ainvoke                                    *)
run_documenter_end_propagates(t, outcome) ==
  /\ pc[t] = "documenter_analyze"
  /\ IF outcome = "raise"
     THEN /\ pc' = [pc EXCEPT ![t] = "except"]
          /\ exc' = [exc EXCEPT ![t] = "Documenter agent failed"]
          /\ st' = st
     ELSE /\ st' = [st EXCEPT
                   ![t].agent_outputs = Put(@, "documenter", AgentResult(t, outcome)),
                   ![t].progress["documenter"] = "completed"]
          /\ pc' = [pc EXCEPT ![t] = "collect_results"]
          /\ exc' = exc
  /\ call_llm(t)
  /\ UNCHANGED <<loc, branch, active_sessions, redis, db, db_outputs, q, response, documenter_config, services, health>>

(* run_documenter with the output recorded but the marker left at started   *)
(* when the result is unsuccessful                                          *)
run_documenter_end_unmarked(t, outcome) ==
  /\ pc[t] = "documenter_analyze"
  /\ IF outcome = "raise"
     THEN st' = [st EXCEPT ![t].errors = Append(@, "Documenter agent failed")]
     ELSE st' = [st EXCEPT
                   ![t].agent_outputs = Put(@, "documenter", AgentResult(t, outcome)),
                   ![t].progress["documenter"] =
                       IF outcome = "success" THEN "completed" ELSE @]
  /\ pc' = [pc EXCEPT ![t] = "collect_results"]
  /\ call_llm(t)
  /\ UNCHANGED <<loc, branch, exc, active_sessions, redis, db, db_outputs, q, response, documenter_config, services, health>>

(* run_documenter with a fault of the stage ending the workflow *)
run_documenter_end_halts(t, outcome) ==
  /\ pc[t] = "documenter_analyze"
  /\ IF outcome = "raise"
     THEN st' = [st EXCEPT ![t].errors = Append(@, "Documenter agent failed")]
     ELSE st' = [st EXCEPT
                   ![t].agent_outputs = Put(@, "documenter", AgentResult(t, outcome)),
                   ![t].progress["documenter"] = "completed"]
  /\ pc' = [pc EXCEPT ![t] = IF outcome = "raise" THEN "end" ELSE "collect_results"]
  /\ call_llm(t)
  /\ UNCHANGED <<loc, branch, exc, active_sessions, redis, db, db_outputs, q, response, documenter_config, services, health>>

(* run_documenter marking the stage failed when analyze raised *)
run_documenter_end_marks_failed(t, outcome) ==
  /\ pc[t] = "documenter_analyze"
  /\ IF outcome = "raise"
     THEN st' = [st EXCEPT ![t].errors = Append(@, "Documenter agent failed"),
                           ![t].progress["documenter"] = "failed"]
     ELSE st' = [st EXCEPT
                   ![t].agent_outputs = Put(@, "documenter", AgentResult(t, outcome)),
                   ![t].progress["documenter"] = "completed"]
  /\ pc' = [pc EXCEPT ![t] = "collect_results"]
  /\ call_llm(t)
  /\ UNCHANGED <<loc, branch, exc, active_sessions, redis, db, db_outputs, q, response, documenter_config, services, health>>

(* lines 301-305 when analyze returned, 307-310 when it raised *)
run_documenter_end(t, outcome) ==
  /\ pc[t] = "documenter_analyze"
  /\ IF outcome = "raise"
     THEN st' = [st EXCEPT ![t].errors = Append(@, "Documenter agent failed")]
     ELSE st' = [st EXCEPT
                   ![t].agent_outputs = Put(@, "documenter", AgentResult(t, outcome)),
                   ![t].progress["documenter"] = "completed"]
  /\ pc' = [pc EXCEPT ![t] = "collect_results"]
  /\ call_llm(t)
  /\ UNCHANGED <<loc, branch, exc, active_sessions, redis, db, db_outputs, q, response, documenter_config, services, health>>

(* -------------------------------------------------------- collect_results *)
(* collect_results marking the stage as started again *)
collect_results_resets(t) ==
  /\ pc[t] = "collect_results"
  /\ LET aggregated == [agents_run |-> DOMAIN st[t].agent_outputs]
     IN st' = [st EXCEPT ![t].current_agent = "collector",
                         ![t].agent_outputs = Put(@, "aggregated", aggregated),
                         ![t].progress["documenter"] = "started",
                         ![t].progress["collection"] = "completed"]
  /\ pc' = [pc EXCEPT ![t] = "store_results"]
  /\ UNCHANGED <<loc, branch, exc, active_sessions, redis, db, db_outputs, q, response, documenter_config, total_runs, last_run, services, health>>

(* lines 413-431; the node awaits nothing.  Of the aggregated entry the    *)
(* model keeps agents_run, the copy of the keys taken here; its results    *)
(* and errors are the agent_outputs dict and the errors list of the state  *)
(* themselves, not copies                                                  *)
collect_results(t) ==
  /\ pc[t] = "collect_results"
  /\ LET aggregated == [agents_run |-> DOMAIN st[t].agent_outputs]
     IN st' = [st EXCEPT ![t].current_agent = "collector",
                         ![t].agent_outputs = Put(@, "aggregated", aggregated),
                         ![t].progress["collection"] = "completed"]
  /\ pc' = [pc EXCEPT ![t] = "store_results"]
  /\ UNCHANGED <<loc, branch, exc, active_sessions, redis, db, db_outputs, q, response, documenter_config, total_runs, last_run, services, health>>

(* ---------------------------------------------------------- store_results *)
(* _get_output_type *)
get_output_type(agent_type) ==
  CASE agent_type = "documenter"            -> "documentation"
    [] agent_type = "tester"                -> "tests"
    [] agent_type = "security_auditor"      -> "security_report"
    [] agent_type = "performance_optimizer" -> "performance_report"
    [] OTHER                                -> "other"

(* iteration order of agent_outputs: insertion order *)
OutputOrder == <<"documenter", "aggregated">>

(* agent_outputs.items() without the aggregated entry, in order *)
RECURSIVE ToStore(_, _)
ToStore(outs, i) ==
  IF i > Len(OutputOrder) THEN <<>>
  ELSE IF OutputOrder[i] \in DOMAIN outs /\ OutputOrder[i] # "aggregated"
       THEN <<OutputOrder[i]>> \o ToStore(outs, i + 1)
       ELSE ToStore(outs, i + 1)

(* lines 443-447: the node starts *)
store_results_begin(t) ==
  /\ pc[t] = "store_results"
  /\ st' = [st EXCEPT ![t].current_agent = "storer",
                      ![t].progress["storage"] = "started"]
  /\ loc' = [loc EXCEPT ![t] = [i |-> 1, parsed |-> {}]]
  /\ pc' = [pc EXCEPT ![t] = "store_loop"]
  /\ UNCHANGED <<branch, exc, active_sessions, redis, db, db_outputs, q, response, documenter_config, total_runs, last_run, services, health>>

(* the loop of store_results without the test that skips the aggregated    *)
(* entry                                                                   *)
store_results_output_all(t, outcome) ==
  /\ pc[t] = "store_loop"
  /\ LET todo == SelectSeq(OutputOrder, LAMBDA k : k \in DOMAIN st[t].agent_outputs) IN
       /\ loc[t].i <= Len(todo)
       /\ IF outcome = "ok"
          THEN /\ db_outputs' = store_agent_output(db_outputs, st[t].session_id,
                                   todo[loc[t].i], get_output_type(todo[loc[t].i]),
                                   st[t].agent_outputs[todo[loc[t].i]])
               /\ loc' = [loc EXCEPT ![t].i = @ + 1]
               /\ UNCHANGED <<st, pc>>
          ELSE /\ st' = [st EXCEPT ![t].errors = Append(@, "Results storage failed")]
               /\ pc' = [pc EXCEPT ![t] = "end"]
               /\ loc' = [loc EXCEPT ![t] = NoLoc]
               /\ UNCHANGED db_outputs
  /\ UNCHANGED <<branch, exc, active_sessions, redis, db, q, response, documenter_config, total_runs, last_run, services, health>>

(* lines 447-456: one store_agent_output call; 463-466 when it raises *)
store_results_output(t, outcome) ==
  /\ pc[t] = "store_loop"
  /\ LET todo == ToStore(st[t].agent_outputs, 1) IN
       /\ loc[t].i <= Len(todo)
       /\ IF outcome = "ok"
          THEN /\ db_outputs' = store_agent_output(db_outputs, st[t].session_id,
                                   todo[loc[t].i], get_output_type(todo[loc[t].i]),
                                   st[t].agent_outputs[todo[loc[t].i]])
               /\ loc' = [loc EXCEPT ![t].i = @ + 1]
               /\ UNCHANGED <<st, pc>>
          ELSE /\ st' = [st EXCEPT ![t].errors = Append(@, "Results storage failed")]
               /\ pc' = [pc EXCEPT ![t] = "end"]
               /\ loc' = [loc EXCEPT ![t] = NoLoc]
               /\ UNCHANGED db_outputs
  /\ UNCHANGED <<branch, exc, active_sessions, redis, db, q, response, documenter_config, total_runs, last_run, services, health>>

(* lines 458-461: every output is stored *)
store_results_end(t) ==
  /\ pc[t] = "store_loop"
  /\ loc[t].i > Len(ToStore(st[t].agent_outputs, 1))
  /\ st' = [st EXCEPT ![t].progress["storage"] = "completed"]
  /\ pc' = [pc EXCEPT ![t] = "end"]
  /\ loc' = [loc EXCEPT ![t] = NoLoc]
  /\ UNCHANGED <<branch, exc, active_sessions, redis, db, db_outputs, q, response, documenter_config, total_runs, last_run, services, health>>

(* ------------------------------------------------ run_analysis, the end *)
(* ainvoke returns when no node is left to run *)
WorkflowOver(t) == pc[t] = "end" /\ SuperstepOver(t)

(* line 182 returns; the task stands at the completed status update *)
AinvokeReturn(t) ==
  /\ WorkflowOver(t)
  /\ pc' = [pc EXCEPT ![t] = "update_completed"]
  /\ branch' = [branch EXCEPT ![t] = "none"]
  /\ UNCHANGED <<st, loc, exc, active_sessions, redis, db, db_outputs, q, response, documenter_config, total_runs, last_run, services, health>>

(* lines 185-191: the status update returns, the id is deleted from        *)
(* active_sessions (KeyError when it is not there) and the task stands at  *)
(* the cache delete                                                        *)
UpdateCompleted(t, outcome) ==
  /\ pc[t] = "update_completed"
  /\ IF outcome = "ok"
     THEN /\ db' = update_session_status(db, st[t].session_id, "completed", <<>>)
          /\ IF st[t].session_id \in DOMAIN active_sessions
             THEN /\ active_sessions' = Remove(active_sessions, st[t].session_id)
                  /\ pc' = [pc EXCEPT ![t] = "redis_delete"]
                  /\ exc' = exc
             ELSE /\ pc' = [pc EXCEPT ![t] = "except"]
                  /\ exc' = [exc EXCEPT ![t] = "KeyError"]
                  /\ UNCHANGED active_sessions
     ELSE /\ pc' = [pc EXCEPT ![t] = "except"]
          /\ exc' = [exc EXCEPT ![t] = "store unavailable"]
          /\ UNCHANGED <<db, active_sessions>>
  /\ UNCHANGED <<st, loc, branch, redis, db_outputs, q, response, documenter_config, total_runs, last_run, services, health>>

(* lines 191-193: the cache delete returns and run_analysis returns        *)
(* result.agent_outputs                                                    *)
Cleanup(t, outcome) ==
  /\ pc[t] = "redis_delete"
  /\ redis' = IF outcome \in {"ok", "fault_after"}
              THEN redis_delete(redis, st[t].session_id)
              ELSE redis
  /\ IF outcome = "ok"
     THEN /\ pc' = [pc EXCEPT ![t] = "returned"]
          /\ exc' = exc
     ELSE /\ pc' = [pc EXCEPT ![t] = "except"]
          /\ exc' = [exc EXCEPT ![t] = "cache unavailable"]
  /\ UNCHANGED <<st, loc, branch, active_sessions, db, db_outputs, q, response, documenter_config, total_runs, last_run, services, health>>

(* lines 195-208: the handler writes failed with str(e), deletes the id    *)
(* from active_sessions when it is there, and stands at the cache delete;  *)
(* when the status update raises, that exception leaves run_analysis       *)
ExceptUpdateFailed(t, outcome) ==
  /\ pc[t] = "except"
  /\ IF outcome = "ok"
     THEN /\ db' = update_session_status(db, st[t].session_id, "failed", <<exc[t]>>)
          /\ active_sessions' =
               IF st[t].session_id \in DOMAIN active_sessions
               THEN Remove(active_sessions, st[t].session_id)
               ELSE active_sessions
          /\ pc' = [pc EXCEPT ![t] = "except_redis_delete"]
     ELSE /\ pc' = [pc EXCEPT ![t] = "raised"]
          /\ UNCHANGED <<db, active_sessions>>
  /\ UNCHANGED <<st, loc, branch, exc, redis, db_outputs, q, response, documenter_config, total_runs, last_run, services, health>>

(* lines 208-210: the cache delete, then raise *)
ExceptCleanup(t, outcome) ==
  /\ pc[t] = "except_redis_delete"
  /\ redis' = IF outcome \in {"ok", "fault_after"}
              THEN redis_delete(redis, st[t].session_id)
              ELSE redis
  /\ pc' = [pc EXCEPT ![t] = "raised"]
  /\ UNCHANGED <<st, loc, branch, exc, active_sessions, db, db_outputs, q, response, documenter_config, total_runs, last_run, services, health>>

(* ---------------------------------------------------- get_session_status *)
(* the view built from the state object found in memory (lines 526-532) *)
MemoryView(s) ==
  [source |-> "memory", status |-> "in_progress",
   current_agent |-> s.current_agent, progress |-> s.progress,
   errors |-> s.errors]

(* the view built from the cached dict (lines 537-543) *)
CacheView(d) ==
  [source |-> "cache", status |-> "cached",
   current_agent |-> d.current_agent, progress |-> d.progress,
   errors |-> d.errors]

(* getSession(id): the row of the durable store, or None *)
get_analysis_session(d, sid) ==
  IF sid \in DOMAIN d
  THEN [source |-> "store", status |-> d[sid].status, current_agent |-> "None",
        progress |-> NoProgress, errors |-> d[sid].error_message]
  ELSE NoView

(* the memory tier with an await between the membership test and the read  *)
(* of the entry: a run that retires the id in between makes the read raise *)
(* KeyError                                                                *)
LookupMemory_unsynchronized(sid) ==
  /\ q.pc \in {"idle", "returned", "raised"}
  /\ IF sid \in DOMAIN active_sessions
     THEN IF pc[active_sessions[sid]] \in {"update_completed", "except"}
          THEN q' = [pc |-> "raised", sid |-> sid, tiers |-> {"memory"},
                     view |-> Seen(NoView)]
          ELSE q' = [pc |-> "returned", sid |-> sid, tiers |-> {"memory"},
                     view |-> Seen(MemoryView(st[active_sessions[sid]]))]
     ELSE q' = [pc |-> "redis_get", sid |-> sid, tiers |-> {"memory"},
                view |-> Seen(NoView)]
  /\ UNCHANGED <<pc, st, loc, branch, exc, active_sessions, redis, db, db_outputs, response, documenter_config, total_runs, last_run, services, health>>

(* lines 524-535: the memory tier is checked and, on a hit, the entry is   *)
(* read and the view is built with no await in between; on a miss the call *)
(* stands at the cache read                                                *)
LookupMemory(sid) ==
  /\ q.pc \in {"idle", "returned", "raised"}
  /\ IF sid \in DOMAIN active_sessions
     THEN q' = [pc |-> "returned", sid |-> sid, tiers |-> {"memory"},
                view |-> Seen(MemoryView(st[active_sessions[sid]]))]
     ELSE q' = [pc |-> "redis_get", sid |-> sid, tiers |-> {"memory"},
                view |-> Seen(NoView)]
  /\ UNCHANGED <<pc, st, loc, branch, exc, active_sessions, redis, db, db_outputs, response, documenter_config, total_runs, last_run, services, health>>

(* the cache tier with a hit passed on to the store *)
LookupCache_falls_through(outcome) ==
  /\ q.pc = "redis_get"
  /\ IF outcome = "ok"
     THEN q' = [q EXCEPT !.pc = "get_session", !.tiers = @ \cup {"cache"}]
     ELSE q' = [q EXCEPT !.pc = "raised", !.tiers = @ \cup {"cache"}]
  /\ UNCHANGED <<pc, st, loc, branch, exc, active_sessions, redis, db, db_outputs, response, documenter_config, total_runs, last_run, services, health>>

(* lines 535-546: the cache read returns (or raises); on a miss the call   *)
(* stands at the store read                                                *)
LookupCache(outcome) ==
  /\ q.pc = "redis_get"
  /\ IF outcome = "ok"
     THEN IF q.sid \in DOMAIN redis
          THEN q' = [q EXCEPT !.pc = "returned", !.tiers = @ \cup {"cache"},
                              !.view = Seen(CacheView(redis_get(redis, q.sid)))]
          ELSE q' = [q EXCEPT !.pc = "get_session", !.tiers = @ \cup {"cache"}]
     ELSE q' = [q EXCEPT !.pc = "raised", !.tiers = @ \cup {"cache"}]
  /\ UNCHANGED <<pc, st, loc, branch, exc, active_sessions, redis, db, db_outputs, response, documenter_config, total_runs, last_run, services, health>>

(* line 546: the store read returns (or raises) *)
LookupStore(outcome) ==
  /\ q.pc = "get_session"
  /\ IF outcome = "ok"
     THEN q' = [q EXCEPT !.pc = "returned", !.tiers = @ \cup {"store"},
                         !.view = Seen(get_analysis_session(db, q.sid))]
     ELSE q' = [q EXCEPT !.pc = "raised", !.tiers = @ \cup {"store"}]
  /\ UNCHANGED <<pc, st, loc, branch, exc, active_sessions, redis, db, db_outputs, response, documenter_config, total_runs, last_run, services, health>>

(* ---------------------------------------------------- get_analysis_status *)
(* server.py 213-230: the status endpoint reads the row of the store and   *)
(* answers with its status and error_message (404 when there is no row);   *)
(* it does not call get_session_status                                     *)
get_analysis_status(d, sid) ==
  LET session == get_analysis_session(d, sid) IN
    IF session.source = "none"
    THEN [status |-> "404", errors |-> <<>>]
    ELSE [status |-> session.status, errors |-> session.errors]

(* ----------------------------------------------------------- health_check *)
(* the texts written to services_status, as strings of characters *)
healthy == <<"h", "e", "a", "l", "t", "h", "y">>

not_initialized ==
  <<"n", "o", "t", "_", "i", "n", "i", "t", "i", "a", "l", "i", "z", "e", "d">>

(* f"unhealthy: {str(e)}" *)
unhealthy(msg) == <<"u", "n">> \o healthy \o <<":", " ">> \o msg

(* str(e) of the exception a ping raised *)
Messages ==
  { <<>>,
    <<"t", "i", "m", "e", "o", "u", "t">>,
    <<"r", "e", "f", "u", "s", "e", "d">> }

(* the operator "in" of two strings: sub occurs in s *)
Contains(sub, s) ==
  \E i \in 1..(Len(s) - Len(sub) + 1) : SubSeq(s, i, i + Len(sub) - 1) = sub

(* what an awaited ping does: returns, or raises with a message *)
PingOutcomes == {<<"ok">>} \cup {<<"raise", m>> : m \in Messages}

(* lines 123-130 and 134-141: the entry a ping leaves in services_status *)
PingStatus(outcome) ==
  IF outcome[1] = "ok" THEN healthy ELSE unhealthy(outcome[2])

(* lines 148-152: HealthResponse(status, timestamp, services) *)
HealthResponse(services_status) ==
  [status   |-> IF \A k \in DOMAIN services_status :
                     Contains(healthy, services_status[k])
                THEN "healthy" ELSE "degraded",
   services |-> services_status]

(* lines 143-152: the orchestrator is looked at and the response is built *)
health_check_return(services_status) ==
  [pc |-> "idle", services_status |-> EmptyMap,
   response |-> HealthResponse(
       Put(services_status, "orchestrator",
           IF services.orchestrator THEN healthy ELSE not_initialized))]

(* lines 133-141: the call stands at the ping of the cache, or, with no    *)
(* client, goes on to its end                                              *)
health_check_redis(services_status) ==
  IF services.redis_client
  THEN [health EXCEPT !.pc = "redis_ping", !.services_status = services_status]
  ELSE health_check_return(Put(services_status, "redis", not_initialized))

(* lines 120-127: the call starts and stands at the ping of the database,  *)
(* or, with no manager, goes on to the cache                               *)
health_check_begin ==
  /\ health.pc = "idle"
  /\ health' = IF services.db_manager
               THEN [health EXCEPT !.pc = "db_ping", !.services_status = EmptyMap]
               ELSE health_check_redis(Put(EmptyMap, "database", not_initialized))
  /\ UNCHANGED <<pc, st, loc, branch, exc, active_sessions, redis, db, db_outputs, q,
                 response, documenter_config, total_runs, last_run, services>>

(* lines 124-130: db_manager.ping returns or raises *)
health_check_database(outcome) ==
  /\ health.pc = "db_ping"
  /\ health' = health_check_redis(
                 Put(health.services_status, "database", PingStatus(outcome)))
  /\ UNCHANGED <<pc, st, loc, branch, exc, active_sessions, redis, db, db_outputs, q,
                 response, documenter_config, total_runs, last_run, services>>

(* lines 135-152: redis_client.ping returns or raises *)
health_check_cache(outcome) ==
  /\ health.pc = "redis_ping"
  /\ health' = health_check_return(
                 Put(health.services_status, "redis", PingStatus(outcome)))
  /\ UNCHANGED <<pc, st, loc, branch, exc, active_sessions, redis, db, db_outputs, q,
                 response, documenter_config, total_runs, last_run, services>>

(* startup_event 88-106: the globals are set in this order, and a fault    *)
(* leaves the later ones unset                                             *)
Startups ==
  { [db_manager |-> FALSE, redis_client |-> FALSE, orchestrator |-> FALSE],
    [db_manager |-> TRUE,  redis_client |-> FALSE, orchestrator |-> FALSE],
    [db_manager |-> TRUE,  redis_client |-> TRUE,  orchestrator |-> FALSE],
    AllServices }

(* the server after any startup, before a session is created *)
InitHealth ==
  /\ pc = [t \in Tasks |-> "idle"]
  /\ st = [t \in Tasks |-> AnalysisState("s1", <<>>, EmptyMap, DefaultModel)]
  /\ loc = [t \in Tasks |-> NoLoc]
  /\ branch = [t \in Tasks |-> "none"]
  /\ exc = [t \in Tasks |-> ""]
  /\ active_sessions = EmptyMap
  /\ redis = EmptyMap
  /\ db = EmptyMap
  /\ db_outputs = <<>>
  /\ q = IdleQuery
  /\ response = [t \in Tasks |-> NoResponse]
  /\ documenter_config = DefaultModel
  /\ total_runs = 0
  /\ last_run = 0
  /\ services \in Startups
  /\ health = IdleHealth

(* the health endpoint, called again and again *)
NextHealth ==
  \/ health_check_begin
  \/ \E o \in PingOutcomes : health_check_database(o)
  \/ \E o \in PingOutcomes : health_check_cache(o)

SpecHealth == InitHealth /\ [][NextHealth]_vars

(* ----------------------------------------------------------------- Next *)
(* the steps of a scheduled run_analysis task *)
RunStep(t) ==
  \/ \E o \in CallOutcomes : UpdateInProgress(t, o)
  \/ \E o \in CacheOutcomes : CacheState(t, o)
  \/ AinvokeFault(t)
  \/ parse_code_begin(t)
  \/ \E parsed \in BOOLEAN : parse_code_file(t, parsed)
  \/ parse_code_end(t)
  \/ route_to_agents(t)
  \/ handle_errors_begin(t)
  \/ \E o \in CallOutcomes : handle_errors_end(t, o)
  \/ run_documenter_begin(t)
  \/ \E o \in StageOutcomes : run_documenter_end(t, o)
  \/ collect_results(t)
  \/ store_results_begin(t)
  \/ \E o \in CallOutcomes : store_results_output(t, o)
  \/ store_results_end(t)
  \/ AinvokeReturn(t)
  \/ \E o \in CallOutcomes : UpdateCompleted(t, o)
  \/ \E o \in CacheOutcomes : Cleanup(t, o)
  \/ \E o \in CallOutcomes : ExceptUpdateFailed(t, o)
  \/ \E o \in CacheOutcomes : ExceptCleanup(t, o)

(* the steps of a get_session_status call *)
LookupStep ==
  \/ \E sid \in SessionIds : LookupMemory(sid)
  \/ \E o \in CallOutcomes : LookupCache(o)
  \/ \E o \in CallOutcomes : LookupStore(o)

(* one session: a single run, any input, with status lookups at any await *)
Next ==
  \/ \E sid \in SessionIds, fs \in FileLists, cfg \in Configs :
       StartRun("t1", sid, fs, cfg)
  \/ StartFails("t1")
  \/ RunStep("t1")
  \/ LookupStep

Spec == Init /\ [][Next]_vars

(* overlapping runs: both tasks may be started; the ids being             *)
(* interchangeable, the first caller's id is s1 and the second caller      *)
(* passes the same id or another one                                       *)
NextConcurrent ==
  \/ \E fs \in FewFileLists, cfg \in FewConfigs : StartRun("t1", "s1", fs, cfg)
  \/ \E sid \in SessionIds, fs \in FewFileLists, cfg \in FewConfigs :
       StartRun("t2", sid, fs, cfg)
  \/ \E t \in Tasks : RunStep(t)

SpecConcurrent == Init /\ [][NextConcurrent]_vars

(* one session without status lookups; the steps the event loop runs once  *)
(* their awaited call has completed.  The call of documenter.analyze       *)
(* (line 294) is awaited without a ceiling: nothing but the stage itself   *)
(* ends that await, so no fairness is assumed for its return               *)
NextLive ==
  \/ \E sid \in SessionIds, fs \in FewFileLists, cfg \in FewConfigs :
       StartRun("t1", sid, fs, cfg)
  \/ RunStep("t1")

StepButStage(t) == pc[t] # "documenter_analyze" /\ RunStep(t)

SpecLive == Init /\ [][NextLive]_vars /\ WF_vars(StepButStage("t1"))

(* every awaited call returns or raises: each step of the run is taken     *)
(* once its await has completed                                            *)
SpecFair == Init /\ [][NextLive]_vars /\ WF_vars(RunStep("t1"))


(* --------------------------------------------------------------- claims *)
(* positions of a task inside workflow.ainvoke *)
WorkflowPcs ==
  {"parse_code", "route_to_agents", "run_documenter", "documenter_analyze",
   "collect_results", "store_results", "store_loop", "end"}

(* positions of a task after workflow.ainvoke returned normally *)
ReturnedPcs == {"update_completed", "redis_delete", "returned"}

(* the run of task t was started *)
Started(t) == pc[t] # "idle"

(* the stage of task t raised, returned success=false, or was disabled and *)
(* has been passed                                                         *)
StageRaised(t) ==
  \E i \in DOMAIN st[t].errors : st[t].errors[i] = "Documenter agent failed"

StageUnsuccessful(t) ==
  /\ "documenter" \in DOMAIN st[t].agent_outputs
  /\ ~st[t].agent_outputs["documenter"].success

StageSkipped(t) ==
  /\ ~DocumenterEnabled(st[t])
  /\ pc[t] \in {"collect_results", "store_results", "store_loop", "end"} \cup ReturnedPcs

(* C1: in every reachable state and for every stage name, agent_outputs    *)
(* has an entry for the stage if and only if the stage's progress status   *)
(* is completed.                                                           *)
C1_OutputIffCompleted ==
  \A t \in Tasks : \A name \in AgentNames :
    (name \in DOMAIN st[t].agent_outputs) <=> (st[t].progress[name] = "completed")

(* C1 witness: the stage returned success=false in a run that also        *)
(* recorded an error: the result is stored and the marker is completed.    *)
C1_Witness ==
  \E t \in Tasks :
    /\ StageUnsuccessful(t)
    /\ st[t].progress["documenter"] = "completed"
    /\ st[t].errors # <<>>

(* C2: when the stage raised, returned success=false or was skipped, the   *)
(* steps after it have run by the time the workflow is over: Collecting    *)
(* completed and Storing was entered.                                      *)
C2_BestEffort ==
  \A t \in Tasks :
    (/\ pc[t] \in {"end"} \cup ReturnedPcs
     /\ StageRaised(t) \/ StageUnsuccessful(t) \/ StageSkipped(t))
    => /\ st[t].progress["collection"] = "completed"
       /\ "aggregated" \in DOMAIN st[t].agent_outputs
       /\ st[t].progress["storage"] \in {"started", "completed"}

(* C2 witness: the stage raised and the run went on through Collecting and *)
(* Storing to the end of run_analysis.                                     *)
C2_Witness ==
  \E t \in Tasks :
    /\ StageRaised(t)
    /\ pc[t] = "returned"
    /\ st[t].progress["storage"] = "completed"

(* C3: whenever the recorded status of a session is completed, every       *)
(* enabled stage's progress is completed or skipped and the errors of the  *)
(* session are empty.                                                      *)
C3_CompletedIsClean ==
  \A t \in Tasks :
    (/\ Started(t)
     /\ st[t].session_id \in DOMAIN db
     /\ db[st[t].session_id].status = "completed")
    => /\ st[t].errors = <<>>
       /\ DocumenterEnabled(st[t]) =>
            st[t].progress["documenter"] \in {"completed", "skipped"}

(* C4: whenever the recorded status of a session is failed, the errors of  *)
(* the session are not empty.                                              *)
C4_FailedHasErrors ==
  \A t \in Tasks :
    (/\ Started(t)
     /\ st[t].session_id \in DOMAIN db
     /\ db[st[t].session_id].status = "failed")
    => st[t].errors # <<>>

(* a status that no later update may change *)
Terminal == {"completed", "failed"}

(* C5: the statuses written to the store for a session only move forward:  *)
(* no update follows a terminal status with a different status.            *)
C5_StatusForward ==
  \A sid \in DOMAIN db :
    \A i \in 1..(Len(db[sid].log) - 1) :
      db[sid].log[i] \in Terminal => db[sid].log[i + 1] = db[sid].log[i]

(* the entries of the errors of task t that are parse warnings *)
ParseWarnings(t) ==
  {i \in DOMAIN st[t].errors :
     \E p \in Paths : st[t].errors[i] = "Parse error in " \o p}

(* the run of task t was given two files for the parser, one of them was   *)
(* parsed and the other was not, the stage was enabled and neither raised  *)
(* nor returned success=false, and run_analysis returned                   *)
EndToEndCase(t) ==
  /\ pc[t] = "returned"
  /\ Len(st[t].files) = 2
  /\ \A i \in DOMAIN st[t].files : Parseable(st[t].files[i])
  /\ Cardinality(st[t].parsed_elements) = 1
  /\ DocumenterEnabled(st[t])
  /\ ~StageRaised(t)
  /\ ~StageUnsuccessful(t)

C7_LookupOrder ==
  /\ [](/\ q.view.source = "memory" => q.tiers = {"memory"}
        /\ q.view.source = "cache" => q.tiers = {"memory", "cache"}
        /\ "cache" \in q.tiers => "memory" \in q.tiers
        /\ "store" \in q.tiers => q.tiers = {"memory", "cache", "store"}
        /\ q.pc = "returned" => q.view.source \in q.tiers \cup {"none"})
  /\ [][/\ (q'.tiers = {"memory"} /\ q' # q) =>
             IF q'.sid \in DOMAIN active_sessions
             THEN q'.pc = "returned" /\ q'.view.source = "memory"
             ELSE q'.pc = "redis_get"
        /\ (q.pc = "redis_get" /\ q'.pc \in {"returned", "get_session"}) =>
             IF q.sid \in DOMAIN redis
             THEN q'.pc = "returned" /\ q'.view.source = "cache"
             ELSE q'.pc = "get_session"
        /\ (q.pc = "get_session" /\ q'.pc = "returned") =>
             q'.view.source = IF q.sid \in DOMAIN db THEN "store" ELSE "none"
       ]_vars

(* C7 witness: a session that is no longer in memory but still in the      *)
(* cache was returned from the cache.                                      *)
C7_Witness ==
  /\ q.pc = "returned"
  /\ q.view.source = "cache"
  /\ q.sid \notin DOMAIN active_sessions

(* C8: a run started with an id that is registered in memory fails before  *)
(* any pipeline step and leaves the registry and the cache as they were.   *)
C8_DuplicateRejected ==
  [][\A t \in Tasks :
       (/\ pc[t] = "update_in_progress"
        /\ st[t].session_id \in DOMAIN active_sessions
        /\ pc'[t] # pc[t])
       => /\ pc'[t] = "except"
          /\ active_sessions' = active_sessions
          /\ redis' = redis]_vars

(* C9: at any time at most one pipeline instance runs for a session id.    *)
C9_OneInstancePerId ==
  \A t1, t2 \in Tasks :
    (t1 # t2 /\ pc[t1] \in WorkflowPcs /\ pc[t2] \in WorkflowPcs)
    => st[t1].session_id # st[t2].session_id

(* C10: when a run has ended, by returning or by raising, its id is in     *)
(* neither the in-process map nor the cache.                               *)
C10_Retired ==
  \A t \in Tasks :
    pc[t] \in {"returned", "raised"}
    => /\ st[t].session_id \notin DOMAIN active_sessions
       /\ st[t].session_id \notin DOMAIN redis

(* the number of terminal statuses written to the row of sid *)
TerminalWrites(sid) ==
  Cardinality({i \in DOMAIN db[sid].log : db[sid].log[i] \in Terminal})

(* positions of a task after its state was registered in memory *)
RegisteredPcs ==
  {"redis_set", "ainvoke", "except", "except_redis_delete", "raised"}
    \cup WorkflowPcs \cup ReturnedPcs

(* C11: for every run that has ended, by returning or by raising, exactly  *)
(* one terminal status (completed or failed) was written to the store for  *)
(* its session, and a session that was registered has left the in-process  *)
(* map only after a terminal status was written.                           *)
C11_TerminalOnce ==
  \A t \in Tasks :
    /\ pc[t] \in {"returned", "raised"}
         => /\ st[t].session_id \in DOMAIN db
            /\ TerminalWrites(st[t].session_id) = 1
    /\ (pc[t] \in RegisteredPcs \ {"except", "raised"}
        /\ st[t].session_id \notin DOMAIN active_sessions)
         => TerminalWrites(st[t].session_id) >= 1

(* the run of task t ended as the ceiling on the session's runtime asks:   *)
(* status failed and an error entry of kind TimeoutExceeded                *)
TimedOut(t) ==
  /\ st[t].session_id \in DOMAIN db
  /\ db[st[t].session_id].status = "failed"
  /\ \E i \in DOMAIN st[t].errors : st[t].errors[i] = "TimeoutExceeded"

(* C12: when the invocation of the stage never returns, the session still  *)
(* ends: it is eventually failed with an error entry TimeoutExceeded.      *)
C12_HangEnds ==
  \A t \in {"t1"} :
    <>[](pc[t] = "documenter_analyze") => <>TimedOut(t)

(* str(e) of the exceptions run_analysis catches from its own awaits *)
RunFaults == {"store unavailable", "cache unavailable", "workflow failed", "KeyError"}

(* C13: a stage that raises never aborts the run: the step that ends the   *)
(* await of the stage either records the result or appends the fault to    *)
(* the errors of the session, and in both cases goes on to Collecting;     *)
(* once the fault is recorded the later steps have run when the workflow   *)
(* is over, and an exception run_analysis handles is never the stage's.    *)
C13_StageFaultAbsorbed ==
  /\ [](\A t \in Tasks :
          /\ pc[t] \in {"except", "except_redis_delete", "raised"}
               => exc[t] \in RunFaults
          /\ StageRaised(t)
               => /\ pc[t] \in {"collect_results", "store_results", "store_loop", "end",
                                "except", "except_redis_delete", "raised"} \cup ReturnedPcs
                  /\ "documenter" \notin DOMAIN st[t].agent_outputs
                  /\ pc[t] \in {"end", "returned"}
                       => st[t].progress["collection"] = "completed")
  /\ [][\A t \in Tasks :
          (pc[t] = "documenter_analyze" /\ pc'[t] # pc[t])
          => /\ pc'[t] = "collect_results"
             /\ \/ /\ st'[t].errors = Append(st[t].errors, "Documenter agent failed")
                   /\ st'[t].agent_outputs = st[t].agent_outputs
                \/ /\ st'[t].errors = st[t].errors
                   /\ "documenter" \in DOMAIN st'[t].agent_outputs]_vars

(* C13 witness: the stage raised, the fault is in the errors of the        *)
(* session, and run_analysis returned with the record completed.           *)
C13_Witness ==
  \E t \in Tasks :
    /\ StageRaised(t)
    /\ pc[t] = "returned"
    /\ "aggregated" \in DOMAIN st[t].agent_outputs
    /\ db[st[t].session_id].status = "completed"

(* C14: when the stage returned a result with success=false and the run    *)
(* has returned, the failure is in the errors of the session, Collecting   *)
(* and Storing have run, and the recorded status is failed.                *)
C14_UnsuccessfulFails ==
  \A t \in Tasks :
    (StageUnsuccessful(t) /\ pc[t] = "returned")
    => /\ st[t].errors # <<>>
       /\ st[t].progress["collection"] = "completed"
       /\ st[t].progress["storage"] \in {"started", "completed"}
       /\ db[st[t].session_id].status = "failed"

(* the store raised while the outputs of task t were being persisted *)
StorageFailed(t) ==
  \E i \in DOMAIN st[t].errors : st[t].errors[i] = "Results storage failed"

(* C15: when the store failed during Storing, the storage error is in the  *)
(* errors of the session, and once the run has ended the recorded status   *)
(* is failed; the record is never completed.                               *)
C15_StorageFailureFails ==
  \A t \in Tasks :
    /\ (pc[t] = "end" /\ st[t].progress["storage"] = "started") => StorageFailed(t)
    /\ StorageFailed(t)
         => /\ db[st[t].session_id].status # "completed"
            /\ pc[t] \in {"returned", "raised"}
                 => db[st[t].session_id].status = "failed"

(* the view the tier named source builds for sid *)
Answer(source, sid) ==
  CASE source = "memory" -> MemoryView(st[active_sessions[sid]])
    [] source = "cache"  -> CacheView(redis_get(redis, sid))
    [] OTHER             -> get_analysis_session(db, sid)

(* C16: a status lookup for a session the store knows never ends with a    *)
(* fault; whichever tier answers, the lookup returns a view, and when the  *)
(* recorded status of the session is failed the view has status failed    *)
(* and errors that are not empty.                                          *)
C16_WellFormedView ==
  [][(q' # q /\ q'.sid \in DOMAIN db)
     => /\ q'.pc # "raised"
        /\ q'.pc = "returned"
             => LET v == Answer(q'.view.source, q'.sid) IN
                  /\ v.source # "none"
                  /\ db[q'.sid].status = "failed"
                       => v.status = "failed" /\ v.errors # <<>>]_vars

(* C17: start answers with the session id and status started without      *)
(* waiting for the pipeline: the response is produced in the step that     *)
(* schedules the run, before any parse or stage step, and it is there in   *)
(* every state of the run, the non-terminal ones included; no step of the  *)
(* pipeline produces or changes it.                                        *)
C17_StartDoesNotWait ==
  /\ [](\A t \in Tasks :
          Started(t) => response[t] = [session_id |-> st[t].session_id,
                                       status |-> "started"])
  /\ [][\A t \in Tasks :
          response'[t] # response[t]
          => /\ pc[t] = "idle"
             /\ response'[t].status = "started"
                  => /\ pc'[t] = "update_in_progress"
                     /\ st'[t].progress = NoProgress]_vars

(* C17 witness: the caller holds the response while the stage of the run   *)
(* has not returned and no terminal status was written.                    *)
C17_Witness ==
  \E t \in Tasks :
    /\ response[t].status = "started"
    /\ pc[t] = "documenter_analyze"
    /\ db[st[t].session_id].status = "in_progress"

(* C18: for a session that is executing, the status operation exposed to   *)
(* callers returns what the lookup of the registry returns for that id:    *)
(* the status and the live errors of the state object in memory.           *)
C18_StatusDelegates ==
  \A sid \in DOMAIN active_sessions :
    LET live == MemoryView(st[active_sessions[sid]])
        view == get_analysis_status(db, sid)
    IN /\ view.status = live.status
       /\ view.errors = live.errors

(* the run of task t has passed the stage's node *)
PastStage(t) ==
  pc[t] \in {"collect_results", "store_results", "store_loop", "end"} \cup ReturnedPcs

(* the step invokes the stage of task t *)
Invokes(t) == pc[t] # "documenter_analyze" /\ pc'[t] = "documenter_analyze"

(* C19: enabling is driven by agents_config alone.  With an empty config,  *)
(* or with the stage mapped to enabled or absent from the config, the      *)
(* stage is invoked exactly once; a stage mapped to disabled is never      *)
(* invoked, has no agent_outputs entry and has its progress marked         *)
(* skipped.                                                                *)
C19_ConfigDrivesStage ==
  /\ [](\A t \in Tasks :
          PastStage(t)
          => IF DocumenterEnabled(st[t])
             THEN st[t].progress["documenter"] \in {"started", "completed"}
             ELSE /\ "documenter" \notin DOMAIN st[t].agent_outputs
                  /\ st[t].progress["documenter"] = "skipped")
  /\ [][\A t \in Tasks :
          Invokes(t)
          => /\ DocumenterEnabled(st[t])
             /\ st[t].progress["documenter"] = "absent"
             /\ st'[t].progress["documenter"] = "started"]_vars

(* the cache after the state of task t was written to an empty cache *)
Stored(t) == redis_set(EmptyMap, st[t].session_id, to_dict(st[t]))

(* C20: every state a session goes through survives serialization: once   *)
(* its to_dict is written to the cache, the entry is there, the state      *)
(* rebuilt from the value read back equals the original in every field,    *)
(* and the value carries the status of the session.                        *)
C20_RoundTrip ==
  \A t \in Tasks :
    Started(t)
    => /\ st[t].session_id \in DOMAIN Stored(t)
       /\ LET d == redis_get(Stored(t), st[t].session_id) IN
            /\ from_dict(d) = st[t]
            /\ "status" \in DOMAIN d

(* C21: the result the stage produced for a session reports the model that *)
(* session's invocation was given, whatever other sessions passed to the   *)
(* stage before or meanwhile.                                              *)
C21_StageResultOwnOptions ==
  \A t \in Tasks :
    ("documenter" \in DOMAIN st[t].agent_outputs
     /\ st[t].agent_outputs["documenter"].success)
    => st[t].agent_outputs["documenter"].model = st[t].model

(* run_analysis of task t has returned or raised *)
Ended(t) == pc[t] \in {"returned", "raised"}

(* C22: when every awaited call returns or raises, every started run ends, *)
(* by returning or by raising, and once it has ended the recorded status   *)
(* of its session is completed or failed.                                  *)
C22_RunTerminates ==
  \A t \in {"t1"} :
    /\ Started(t) ~> Ended(t)
    /\ [](Ended(t) => db[st[t].session_id].status \in Terminal)

(* C23: when Parsing returns, exactly one successor is started: with       *)
(* errors recorded it is ErrorHandling and Routing is not entered, with    *)
(* none it is Routing and ErrorHandling is not entered.                    *)
C23_ExactlyOneSuccessor ==
  [][\A t \in Tasks :
       (pc[t] = "parse_code" /\ pc'[t] # "parse_code")
       => IF st'[t].errors # <<>>
          THEN branch'[t] = "todo" /\ pc'[t] # "route_to_agents"
          ELSE branch'[t] = "none" /\ pc'[t] = "route_to_agents"]_vars

(* C24: a file that fails to parse is recorded in the errors and does not  *)
(* block the run: when Parsing returns, Routing is started whatever the    *)
(* errors, and a run with a parse warning whose workflow is over has been  *)
(* through Routing, the stage (when enabled) and Collecting.               *)
C24_ParseWarningContinues ==
  /\ [](\A t \in Tasks :
          (ParseWarnings(t) # {} /\ pc[t] \in {"end"} \cup ReturnedPcs)
          => /\ st[t].progress["routing"] = "completed"
             /\ DocumenterEnabled(st[t])
                  => st[t].progress["documenter"] \in {"started", "completed"}
             /\ st[t].progress["collection"] = "completed")
  /\ [][\A t \in Tasks :
          (pc[t] = "parse_code" /\ pc'[t] # "parse_code")
          => pc'[t] = "route_to_agents"]_vars

(* C24 witness: a file failed to parse and the stage of the run has been   *)
(* invoked.                                                                *)
C24_Witness ==
  \E t \in Tasks :
    /\ ParseWarnings(t) # {}
    /\ pc[t] = "documenter_analyze"
    /\ st[t].progress["routing"] = "completed"

(* the paths of the files of task t that are handed to the parser *)
ParserFiles(t) ==
  {st[t].files[i] : i \in {j \in DOMAIN st[t].files : Parseable(st[t].files[j])}}

(* the error entry of a file that failed to parse is in the errors *)
Warned(t, path) ==
  \E i \in DOMAIN st[t].errors : st[t].errors[i] = "Parse error in " \o path

MainStep(t) == pc[t] \in WorkflowPcs \cup {"ainvoke"} /\ pc'[t] # pc[t]

(* the handle_errors node of task t has started and has not returned *)
HandlingErrors(t) == branch[t] = "update_failed"

(* C26: the steps of a session run one at a time in the declared order:    *)
(* Routing after Parsing, the stage after Routing, Collecting after the    *)
(* stage, Storing after Collecting, and no step is taken while another     *)
(* step of the session has started and not returned.                       *)
C26_Sequential ==
  /\ [](\A t \in Tasks :
          /\ st[t].progress["routing"] # "absent"
               => st[t].progress["parsing"] = "completed"
          /\ st[t].progress["documenter"] # "absent"
               => st[t].progress["routing"] = "completed"
          /\ st[t].progress["collection"] # "absent"
               => /\ st[t].progress["routing"] = "completed"
                  /\ pc[t] # "documenter_analyze"
          /\ st[t].progress["storage"] # "absent"
               => st[t].progress["collection"] = "completed")
  /\ [][\A t \in Tasks : MainStep(t) => ~HandlingErrors(t)]_vars

(* the handle_errors node of task t has been entered *)
EnteredErrorHandling(t) == st[t].progress["error_handling"] # "absent"

(* C27: ErrorHandling is absorbing: the node never returns without having  *)
(* recorded the status failed, and once it has been entered no Routing,    *)
(* stage, Collecting or Storing step is taken for the session.             *)
C27_ErrorHandlingAbsorbing ==
  /\ [](\A t \in Tasks :
          st[t].progress["error_handling"] = "completed"
          => \E i \in DOMAIN db[st[t].session_id].log :
               db[st[t].session_id].log[i] = "failed")
  /\ [][\A t \in Tasks :
          (EnteredErrorHandling(t) /\ pc[t] \in WorkflowPcs \ {"end"})
          => pc'[t] = pc[t]]_vars

(* the stage outputs held with a state or cached dict whose progress       *)
(* marker is not completed                                                 *)
Unmarked(outputs, progress) ==
  {name \in AgentNames \cap DOMAIN outputs : progress[name] # "completed"}

(* C28: whatever a status query can read, at any await of a running        *)
(* session, holds no stage output ahead of its marker: not the state       *)
(* object registered in memory, whose progress the view reports, not the   *)
(* cached dict, and not the outputs handed to the store.                   *)
C28_NoOutputBeforeMarker ==
  /\ \A sid \in DOMAIN active_sessions :
       LET s == st[active_sessions[sid]] IN
         Unmarked(s.agent_outputs, MemoryView(s).progress) = {}
  /\ \A sid \in DOMAIN redis :
       LET d == redis_get(redis, sid) IN
         Unmarked(d.agent_outputs, CacheView(d).progress) = {}
  /\ \A i \in DOMAIN db_outputs :
       \E t \in Tasks :
         /\ st[t].session_id = db_outputs[i].session_id
         /\ st[t].progress[db_outputs[i].agent_type] = "completed"

(* C28 witness: a query was answered from memory while the session holds   *)
(* the output of its stage and is storing it.                              *)
C28_Witness ==
  /\ q.pc = "returned"
  /\ q.view.source = "memory"
  /\ q.sid \in DOMAIN active_sessions
  /\ "documenter" \in DOMAIN st[active_sessions[q.sid]].agent_outputs
  /\ pc[active_sessions[q.sid]] = "store_loop"

(* sequence a is a prefix of sequence b *)
IsPrefix(a, b) == Len(a) <= Len(b) /\ SubSeq(b, 1, Len(a)) = a

(* C29: the errors of a session are append-only: across every step the     *)
(* errors before the step are a prefix of the errors after it.             *)
C29_ErrorsAppendOnly ==
  [][\A t \in Tasks : IsPrefix(st[t].errors, st'[t].errors)]_vars

(* C29 witness: errors of three steps, in the order they were appended:    *)
(* two parse warnings and the fault of the stage.                          *)
C29_Witness ==
  \E t \in Tasks :
    /\ Len(st[t].errors) = 3
    /\ ParseWarnings(t) = {1, 2}
    /\ st[t].errors[1] # st[t].errors[2]
    /\ st[t].errors[3] = "Documenter agent failed"

(* how far a progress marker has advanced *)
Rank(status) ==
  CASE status = "absent"  -> 0
    [] status = "started" -> 1
    [] OTHER              -> 2

(* C30: every progress marker of a session only advances: from absent to   *)
(* started to completed (skipped, failed); no step moves a marker back,    *)
(* and a marker that reached a final value keeps it.                       *)
C30_ProgressMonotone ==
  [][\A t \in Tasks : \A k \in ProgressKeys :
       /\ Rank(st'[t].progress[k]) >= Rank(st[t].progress[k])
       /\ Rank(st[t].progress[k]) = 2
            => st'[t].progress[k] = st[t].progress[k]]_vars

(* C30 witness: a run has returned with the markers of Parsing, the stage  *)
(* and Storing advanced to completed.                                      *)
C30_Witness ==
  \E t \in Tasks :
    /\ pc[t] = "returned"
    /\ st[t].progress["parsing"] = "completed"
    /\ st[t].progress["documenter"] = "completed"
    /\ st[t].progress["storage"] = "completed"

(* the step completes an invocation of the stage: analyze returns or raises *)
InvocationCompletes ==
  \E t \in Tasks : pc[t] = "documenter_analyze" /\ pc'[t] # "documenter_analyze"

(* C31: the counters of the stage (total_runs, last_run) are updated by     *)
(* every step that completes an invocation of the stage, whether the        *)
(* invocation succeeded or failed: the count goes up by one and the stamp   *)
(* is renewed; no other step of the pipeline changes them.                  *)
C31_CountersFollowInvocations ==
  [][IF InvocationCompletes
     THEN total_runs' = total_runs + 1 /\ last_run' # last_run
     ELSE UNCHANGED <<total_runs, last_run, services, health>>]_vars

(* the step starts a get_session_status call: its memory tier runs *)
LookupBegins == q.pc \in {"idle", "returned", "raised"} /\ q' # q

Reachable(r, k) == k \in DOMAIN r.services /\ r.services[k] = healthy

(* C33: a health response says healthy only when the database, the cache   *)
(* and the orchestrator were all found reachable; with any of them         *)
(* unreachable or not initialized the response is not healthy.             *)
C33_HealthyOnlyIfAllReachable ==
  health.response.status = "healthy" =>
    \A k \in {"database", "redis", "orchestrator"} : Reachable(health.response, k)

(* the view a lookup answered from the cache tier gives for the id *)
CachedView(sid) == CacheView(redis_get(redis, sid))

(* C34: the cache entry of a session is written once, at registration,     *)
(* with the state as constructed, and is not rewritten while the run goes  *)
(* on: an entry appears only by the cache write of a run standing at       *)
(* registration and holds the initial state of that run, an entry that     *)
(* stays keeps its value, and the view a lookup gets from the cache tier   *)
(* has no progress, no errors and no current agent, whatever the pipeline  *)
(* has done since.                                                         *)
C34_CacheHoldsInitialSnapshot ==
  /\ [][\A sid \in SessionIds :
          /\ (sid \in DOMAIN redis /\ sid \in DOMAIN redis') => redis'[sid] = redis[sid]
          /\ (sid \notin DOMAIN redis /\ sid \in DOMAIN redis') =>
               \E t \in Tasks :
                 /\ pc[t] = "redis_set"
                 /\ st[t].session_id = sid
                 /\ redis_get(redis', sid) =
                      to_dict(AnalysisState(sid, st[t].files, st[t].agents_config,
                                            st[t].model))]_vars
  /\ [](\A sid \in DOMAIN redis :
          /\ CachedView(sid).progress = NoProgress
          /\ CachedView(sid).errors = <<>>
          /\ CachedView(sid).current_agent = "None")

(* C34 witness: the pipeline ran to the end of Storing with an error       *)
(* recorded, the session left the registry, and a lookup was answered from *)
(* the cache entry, which still shows the initial snapshot.                *)
C34_Witness ==
  /\ q.pc = "returned"
  /\ q.view.source = "cache"
  /\ q.sid = st["t1"].session_id
  /\ q.sid \in DOMAIN redis
  /\ pc["t1"] = "redis_delete"
  /\ st["t1"].progress["storage"] = "completed"
  /\ st["t1"].errors # <<>>
  /\ CachedView(q.sid).progress = NoProgress

(* the step is one of the retirement of task t's session: the terminal     *)
(* status update with the removal from the registry, or the cache delete,  *)
(* on the normal path or in the handler                                    *)
Retires(t) ==
  /\ pc[t] \in {"update_completed", "redis_delete", "except", "except_redis_delete"}
  /\ pc'[t] # pc[t]

(* the entry of key k is the same in f and g *)
SameEntry(f, g, k) ==
  /\ k \in DOMAIN f <=> k \in DOMAIN g
  /\ k \in DOMAIN f => g[k] = f[k]

(* C35: retiring or failing one session leaves every other session         *)
(* untouched: a retirement step of session A changes no registry entry and *)
(* no cache key of another id, and no field of another session's state.    *)
C35_RetirementFrame ==
  [][\A t \in Tasks :
       Retires(t) =>
         /\ \A sid \in SessionIds \ {st[t].session_id} :
              /\ SameEntry(active_sessions, active_sessions', sid)
              /\ SameEntry(redis, redis', sid)
         /\ \A u \in Tasks \ {t} : st'[u] = st[u]]_vars

(* C35 witness: two sessions with different ids were registered and        *)
(* cached, one was retired and is gone from the registry and the cache,    *)
(* the other is still registered and cached, its run in the workflow.      *)
C35_Witness ==
  /\ st["t1"].session_id # st["t2"].session_id
  /\ pc["t1"] \in {"returned", "raised"}
  /\ st["t1"].session_id \notin DOMAIN active_sessions
  /\ st["t1"].session_id \notin DOMAIN redis
  /\ st["t1"].progress["parsing"] = "completed"
  /\ pc["t2"] \in WorkflowPcs
  /\ st["t2"].session_id \in DOMAIN active_sessions
  /\ active_sessions[st["t2"].session_id] = "t2"
  /\ st["t2"].session_id \in DOMAIN redis

(* the entries of the errors of task t that name the stage *)
StageErrors(t) ==
  {i \in DOMAIN st[t].errors : st[t].errors[i] = "Documenter agent failed"}

(* C36: when the invocation of the stage raises, the stage's marker is     *)
(* left at started, no agent_outputs entry is written for the stage, and   *)
(* exactly one error naming the stage is appended to errors.  The step     *)
(* that ends an invocation either records the output and marks the stage   *)
(* completed, the errors unchanged, or appends that one error and leaves   *)
(* marker and outputs as they were; and from then on a run whose stage     *)
(* raised shows the marker started, no output and a single such error.     *)
C36_RaisedStageLeftStarted ==
  /\ [][\A t \in Tasks :
          (pc[t] = "documenter_analyze" /\ pc'[t] # pc[t]) =>
            \/ /\ "documenter" \in DOMAIN st'[t].agent_outputs
               /\ st'[t].progress["documenter"] = "completed"
               /\ st'[t].errors = st[t].errors
            \/ /\ st'[t].errors = Append(st[t].errors, "Documenter agent failed")
               /\ st'[t].progress["documenter"] = "started"
               /\ st'[t].progress = st[t].progress
               /\ st'[t].agent_outputs = st[t].agent_outputs
               /\ "documenter" \notin DOMAIN st'[t].agent_outputs]_vars
  /\ [](\A t \in Tasks :
          StageRaised(t) =>
            /\ st[t].progress["documenter"] = "started"
            /\ "documenter" \notin DOMAIN st[t].agent_outputs
            /\ Cardinality(StageErrors(t)) = 1)

(* C36 witness: the stage raised in a run that had a parse warning, and    *)
(* the run is in Storing: two errors, one of them naming the stage, the    *)
(* marker at started and nothing to store for the stage.                   *)
C36_Witness ==
  /\ StageRaised("t1")
  /\ pc["t1"] = "store_loop"
  /\ Len(st["t1"].errors) = 2
  /\ ParseWarnings("t1") # {}
  /\ st["t1"].progress["documenter"] = "started"
  /\ ToStore(st["t1"].agent_outputs, 1) = <<>>

(* C37: when a step of run_analysis raised (the in_progress update, the    *)
(* cache write, the workflow driver, the completed update with the removal *)
(* from the registry, or the cache delete), run_analysis has, by the time  *)
(* it raises to its caller, written status failed with the message of the  *)
(* fault to the store, removed the id from the in-process map and deleted  *)
(* the cache key; and the handler, once entered, ends only by raising.     *)
C37_FaultHandled ==
  /\ [](\A t \in Tasks :
          pc[t] = "raised" =>
            /\ st[t].session_id \in DOMAIN db
            /\ db[st[t].session_id].status = "failed"
            /\ db[st[t].session_id].error_message = <<exc[t]>>
            /\ st[t].session_id \notin DOMAIN active_sessions
            /\ st[t].session_id \notin DOMAIN redis)
  /\ [][\A t \in Tasks :
          (pc[t] \in {"except", "except_redis_delete"} /\ pc'[t] # pc[t])
            => pc'[t] \in {"except_redis_delete", "raised"}]_vars

(* the rows of the durable store written for the session, in the order     *)
(* they were written                                                       *)
RowsOf(sid) == SelectSeq(db_outputs, LAMBDA row : row.session_id = sid)

(* the stage names of a sequence of rows *)
StagesOf(rows) == [i \in DOMAIN rows |-> rows[i].agent_type]

(* C38: Storing persists each stage's output exactly once per run, in the  *)
(* order of agent_outputs, with the kind fixed by the stage name           *)
(* (documenter gives documentation, an unknown name gives other), and      *)
(* never the aggregated entry: no row is ever written for aggregated, no   *)
(* stage has two rows, every row has the kind of its stage and the output  *)
(* of its stage as content, and when Storing has completed the rows are    *)
(* those of the stage outputs, one each, in order.                         *)
C38_StoredOncePerStage ==
  /\ get_output_type("documenter") = "documentation"
  /\ get_output_type("unknown_stage") = "other"
  /\ \A t \in Tasks :
       Started(t) =>
         LET rows == RowsOf(st[t].session_id) IN
           /\ \A i \in DOMAIN rows :
                /\ rows[i].agent_type # "aggregated"
                /\ rows[i].agent_type \in DOMAIN st[t].agent_outputs
                /\ rows[i].content = st[t].agent_outputs[rows[i].agent_type]
                /\ rows[i].agent_type = "documenter" => rows[i].output_type = "documentation"
                /\ rows[i].agent_type \notin
                     {"documenter", "tester", "security_auditor", "performance_optimizer"}
                     => rows[i].output_type = "other"
           /\ \A i, j \in DOMAIN rows : rows[i].agent_type = rows[j].agent_type => i = j
           /\ st[t].progress["storage"] = "completed" =>
                StagesOf(rows) = ToStore(st[t].agent_outputs, 1)

(* C38 witness: the run has returned with Storing completed: the store has *)
(* the single row of the stage's output, of kind documentation, while the  *)
(* session holds the aggregated entry as well.                             *)
C38_Witness ==
  /\ pc["t1"] = "returned"
  /\ st["t1"].progress["storage"] = "completed"
  /\ "aggregated" \in DOMAIN st["t1"].agent_outputs
  /\ Len(RowsOf(st["t1"].session_id)) = 1
  /\ RowsOf(st["t1"].session_id)[1].agent_type = "documenter"
  /\ RowsOf(st["t1"].session_id)[1].output_type = "documentation"

====
